---- MODULE Spec2Model ----
(***************************************************************************)
(* Linux-Simple-monitoring-panel: the connection-churn tracker of          *)
(* routers/network.py, and the metrics history (sampler, store, windowed   *)
(* query with rate derivation, bulk clear) of tasks.py, models.py and      *)
(* routers/system.py.                                                      *)
(*                                                                         *)
(* Time is the wall clock (time.time(), datetime.now(timezone.utc)) in     *)
(* ticks, TicksPerSecond ticks to a second.  Decimal results (rounded to   *)
(* two places by the code) are integers counting hundredths.               *)
(***************************************************************************)
EXTENDS Integers, Sequences, FiniteSets, TLC

\* ------------------------------------------------------------------ bounds

\* Resolution of the modelled clock.
TicksPerSecond == 2

\* Wall-clock reading, in seconds, when the process starts (time.time() is
\* seconds since 1970: far more than the 10 s band of the churn tracker).
StartSeconds == 50

\* Seconds of wall-clock time the churn model lets pass after the start.
ChurnHorizonSeconds == 13

\* Number of get_network_connections calls the churn model follows.
MaxCalls == 2

\* Number of samples the history model lets the sampler store.
MaxSamples == 3

\* Number of times the history model lets the process be started again.
MaxRestarts == 1

Epoch0 == StartSeconds * TicksPerSecond

\* The request threads (FastAPI runs a plain `def` endpoint in its thread
\* pool, so two requests may run get_network_connections at once).
Threads == {1, 2}

\* ------------------------------------------------------- program constants

\* routers/network.py:90   if 1 < time_diff < 10 ...
BandLowSeconds == 1
BandHighSeconds == 10
\* routers/network.py:94   rate_multiplier = 3.0 / time_diff
RateWindowSeconds == 3

\* routers/network.py:72: the states whose connections enter the snapshot.
ChurnStates == {"ESTABLISHED", "TIME_WAIT", "CLOSE_WAIT", "SYN_SENT", "SYN_RECV"}

\* What psutil.net_connections(kind='inet') may list: each connection has a
\* signature (laddr.ip, laddr.port, raddr.ip, raddr.port) and a status.
Conns ==
    { [sig |-> "A", status |-> "ESTABLISHED"],
      [sig |-> "B", status |-> "ESTABLISHED"],
      [sig |-> "C", status |-> "TIME_WAIT"],
      [sig |-> "L", status |-> "LISTEN"] }

\* The listings psutil.net_connections(kind='inet') returns to the calls of
\* the model.
Listings ==
    { {},
      { x \in Conns : x.sig \in {"A", "B", "L"} },
      { x \in Conns : x.sig \in {"A", "C"} } }

\* Lengths of time between the arrival of one request and the next: none,
\* 1 s (the band's open lower end), 1.5 s, 10 s (its open upper end).
ChurnGaps ==
    { 0,
      BandLowSeconds * TicksPerSecond,
      (3 * TicksPerSecond) \div 2,
      BandHighSeconds * TicksPerSecond }

\* main.py:24   scheduler.add_job(..., 'interval', seconds=3)
SampleIntervalSeconds == 3
\* routers/system.py:26   minutes: int = 60
DefaultMinutes == 60

\* The clock readings the history model follows: the first MaxSamples
\* sampling intervals after the start, and the MaxSamples intervals after
\* the default window has passed once.
HistoryTimes ==
    { Epoch0 + (w * DefaultMinutes * 60 + k * SampleIntervalSeconds) * TicksPerSecond :
        w \in 0..1, k \in 0..MaxSamples }

\* Lengths of time that may pass between two steps of the history model:
\* one sampling interval, or the whole default window.
HistoryGaps ==
    { SampleIntervalSeconds * TicksPerSecond,
      DefaultMinutes * 60 * TicksPerSecond }

\* What psutil reports to the sampler (tasks.py:10-18): cpu_percent in
\* tenths of a percent, mem.used and mem.total in thousandths of a MB, the
\* cumulative byte counters of psutil.net_io_counters().  The table
\* outlives the process and the machine's uptime, so a reading may follow
\* any other: the counters restart at a reboot, and the total memory
\* changes when the machine is resized.
Readings ==
    { [cpu_percent |-> 125, memory_used_mb |-> 512375, memory_total_mb |-> 1024000,
       bytes_sent |-> 100, bytes_recv |-> 200],
      [cpu_percent |-> 500, memory_used_mb |-> 600125, memory_total_mb |-> 1024000,
       bytes_sent |-> 300, bytes_recv |-> 200],
      [cpu_percent |-> 30, memory_used_mb |-> 700000, memory_total_mb |-> 2048000,
       bytes_sent |-> 0, bytes_recv |-> 50],
      [cpu_percent |-> 999, memory_used_mb |-> 812344, memory_total_mb |-> 2048000,
       bytes_sent |-> 400, bytes_recv |-> 300] }

\* The strings a caller passes as start_time and end_time: absent (None),
\* one that datetime.fromisoformat rejects, and the ISO 8601 texts (UTC, as
\* the frontend sends them) of two instants.
NoString == <<"none">>
Garbage == <<"text", "garbage">>
IsoFormat(t) == <<"iso", t>>

WindowStart == IsoFormat(Epoch0 + 2 * SampleIntervalSeconds * TicksPerSecond)
WindowEnd == IsoFormat(Epoch0 + 3 * SampleIntervalSeconds * TicksPerSecond)

\* The arguments of the get_metrics_history calls of the model: the
\* trailing form with two values of minutes, an explicit window (alone,
\* with minutes, reversed), a window with one bound unparsable, and a
\* window with one bound absent.
QueryArgs ==
    { [minutes |-> m, start_time |-> NoString, end_time |-> NoString] :
        m \in {1, DefaultMinutes} }
    \cup
    { [minutes |-> m, start_time |-> WindowStart, end_time |-> WindowEnd] :
        m \in {1, DefaultMinutes} }
    \cup
    { [minutes |-> DefaultMinutes, start_time |-> w[1], end_time |-> w[2]] :
        w \in { <<WindowEnd, WindowStart>>,
                <<Garbage, WindowEnd>>,
                <<WindowStart, Garbage>>,
                <<WindowStart, NoString>> } }

NoResponse == [op |-> "none"]

\* The clock readings the churn model follows.
ChurnTimes == Epoch0 .. (Epoch0 + ChurnHorizonSeconds * TicksPerSecond)

VARIABLES
    now,                        \* the wall clock
    store,                      \* models.py:8  metrics_history, insertion order
    next_run_time,              \* main.py:24  the interval job's next run
    response,                   \* what the last history handler returned,
                                \*   or how the last run of the job ended
    previous,                   \* history: what the last query returned, while
                                \*   no run of the job and no clear followed it
    cleared_last,               \* history: the last request served was a
                                \*   successful clear_metrics_history
    since_clear,                \* history: samples stored since the last
                                \*   successful clear (since the start)
    restarts,                   \* history: restarts of the process so far
    last_connections_snapshot,  \* network.py:14  _last_connections_snapshot
    last_snapshot_time,         \* network.py:15  _last_snapshot_time
    writers,                    \* history: the numbers of the calls that wrote
                                \*   the stored set and the stored time
    pc,                         \* per request thread: the line it is at
    frame,                      \* per request thread: its local variables
    calls                       \* history: calls started so far

churnVars == <<last_connections_snapshot, last_snapshot_time, writers, pc, frame, calls>>

historyVars == <<store, next_run_time, response, previous, cleared_last, since_clear, restarts>>

vars == <<now, churnVars, historyVars>>

\* ------------------------------------------------------ churn: pure parts

\* network.py:65-79: the signatures of the connections in a churn state.
Signatures(connections) ==
    { c.sig : c \in { x \in connections : x.status \in ChurnStates } }

\* network.py:66-70: status -> number of connections in that status.
StatusCounts(connections) ==
    [ st \in { c.status : c \in connections } |->
        Cardinality({ c \in connections : c.status = st }) ]

InBandInclusive(time_diff) ==
    /\ BandLowSeconds * TicksPerSecond <= time_diff
    /\ time_diff < BandHighSeconds * TicksPerSecond

\* network.py:90: 1 < time_diff < 10
InBand(time_diff) ==
    /\ BandLowSeconds * TicksPerSecond < time_diff
    /\ time_diff < BandHighSeconds * TicksPerSecond

\* network.py:94-96: int(n * (3.0 / time_diff)), time_diff > 0.  int()
\* truncates; n and the quotient are not negative here.  The float product
\* equals the exact quotient's integer part for the counts and times of the
\* model (the two first differ at n = 55, time_diff = 5.5).
Normalize(n, time_diff) ==
    (n * RateWindowSeconds * TicksPerSecond) \div time_diff

IdleFrame ==
    [ connections      |-> {},
      current_snapshot |-> {},
      current_time     |-> 0,
      time_diff        |-> 0,
      new_conns        |-> 0,
      closed_conns     |-> 0,
      first            |-> FALSE,   \* history: read the initial time 0
      base             |-> {},      \* history: the stored set at arrival
      denied           |-> FALSE,   \* history: net_connections was denied
      id               |-> 0 ]      \* history: the number of the call

\* network.py:102-109: the response of a call that reached its return.
Response(c) ==
    [ status_counts     |-> StatusCounts(frame[c].connections),
      total_connections |-> Cardinality(frame[c].connections),
      new_per_3s        |-> frame[c].new_conns,
      closed_per_3s     |-> frame[c].closed_conns ]

\* ----------------------------------------------------------- churn: steps

\* Time passes: d ticks, to a clock reading the model follows.
Elapse(d, readings) ==
    /\ now + d \in readings
    /\ now' = now + d

\* The return statement of network.py:102 touches nothing shared: a call
\* that reached it returns before any other thread is followed further.
Scheduled(c) ==
    \A o \in Threads : pc[o] = "l102" => o = c

\* The thread pool hands a request to its first free thread.
FirstFree(c) ==
    /\ Scheduled(c)
    /\ pc[c] = "idle"
    /\ \A o \in Threads : pc[o] = "idle" => ~(o < c)

\* network.py:54-83: a request arrives (the clock is only read here, so
\* the time that passed since the last arrival is added here), the snapshot
\* of `connections` is built, then the clock and the stored time are read.
Begin(c, connections, denied) ==
    /\ FirstFree(c)
    /\ calls < MaxCalls
    /\ calls' = calls + 1
    /\ \E d \in ChurnGaps : Elapse(d, ChurnTimes)
    /\ frame' = [frame EXCEPT ![c] =
                   [IdleFrame EXCEPT
                      !.connections = connections,
                      !.current_snapshot = Signatures(connections),
                      !.current_time = now',
                      !.time_diff = now' - last_snapshot_time,
                      !.first = (last_snapshot_time = 0),
                      !.base = last_connections_snapshot,
                      !.denied = denied,
                      !.id = calls']]
    /\ pc' = [pc EXCEPT ![c] = "l90"]
    /\ UNCHANGED <<last_connections_snapshot, last_snapshot_time, writers, historyVars>>

\* network.py:58: psutil.net_connections returned a listing.
Enumerate(c) ==
    \E connections \in Listings : Begin(c, connections, FALSE)

EnumerateDeniedKeepsListing(c) ==
    \E connections \in Listings \ {{}} : Begin(c, connections, TRUE)

\* network.py:59-61: psutil.AccessDenied leaves connections = [].
EnumerateDenied(c) ==
    Begin(c, {}, TRUE)

\* network.py:87-90: the condition of the if; `and` reads the stored
\* snapshot only when the band test passed.
CheckBand(c) ==
    /\ Scheduled(c)
    /\ pc[c] = "l90"
    /\ pc' = [pc EXCEPT ![c] =
                IF InBand(frame[c].time_diff) /\ last_connections_snapshot # {}
                  THEN "l91"
                  ELSE "l99"]
    /\ UNCHANGED <<frame, now, last_connections_snapshot, last_snapshot_time, writers, calls, historyVars>>

\* network.py:91.
DiffNew(c) ==
    /\ Scheduled(c)
    /\ pc[c] = "l91"
    /\ frame' = [frame EXCEPT ![c].new_conns =
                   Cardinality(frame[c].current_snapshot \ last_connections_snapshot)]
    /\ pc' = [pc EXCEPT ![c] = "l92"]
    /\ UNCHANGED <<now, last_connections_snapshot, last_snapshot_time, writers, calls, historyVars>>

\* network.py:92-96.
DiffClosed(c) ==
    /\ Scheduled(c)
    /\ pc[c] = "l92"
    /\ LET closed == Cardinality(last_connections_snapshot \ frame[c].current_snapshot)
       IN frame' = [frame EXCEPT
                      ![c].new_conns = Normalize(frame[c].new_conns, frame[c].time_diff),
                      ![c].closed_conns = Normalize(closed, frame[c].time_diff)]
    /\ pc' = [pc EXCEPT ![c] = "l99"]
    /\ UNCHANGED <<now, last_connections_snapshot, last_snapshot_time, writers, calls, historyVars>>

\* network.py:99.
StoreSnapshot(c) ==
    /\ Scheduled(c)
    /\ pc[c] = "l99"
    /\ last_connections_snapshot' = frame[c].current_snapshot
    /\ writers' = [writers EXCEPT !.snapshot = frame[c].id]
    /\ pc' = [pc EXCEPT ![c] = "l100"]
    /\ UNCHANGED <<now, last_snapshot_time, frame, calls, historyVars>>

\* network.py:100.
StoreTime(c) ==
    /\ Scheduled(c)
    /\ pc[c] = "l100"
    /\ last_snapshot_time' = frame[c].current_time
    /\ writers' = [writers EXCEPT !.time = frame[c].id]
    /\ pc' = [pc EXCEPT ![c] = "l102"]
    /\ UNCHANGED <<now, last_connections_snapshot, frame, calls, historyVars>>

\* network.py:102-109: Response(c) goes to the client, the thread is free.
Return(c) ==
    /\ pc[c] = "l102"
    /\ pc' = [pc EXCEPT ![c] = "idle"]
    /\ frame' = [frame EXCEPT ![c] = IdleFrame]
    /\ UNCHANGED <<now, last_connections_snapshot, last_snapshot_time, writers, calls, historyVars>>

get_network_connections(c) ==
    \/ Enumerate(c)
    \/ EnumerateDenied(c)
    \/ CheckBand(c)
    \/ DiffNew(c)
    \/ DiffClosed(c)
    \/ StoreSnapshot(c)
    \/ StoreTime(c)
    \/ Return(c)

NextChurn ==
    \E c \in Threads : get_network_connections(c)

\* ---------------------------------------------------- history: pure parts

\* max(0, x)
Max0(x) == IF x > 0 THEN x ELSE 0

\* round(num / den, 2) for num >= 0 and den > 0, in hundredths.  Python
\* rounds a value that lies exactly between two candidates to the even one.
Round2(num, den) ==
    LET q == (100 * num) \div den
        r == (100 * num) % den
    IN IF 2 * r < den THEN q
       ELSE IF 2 * r > den THEN q + 1
       ELSE IF q % 2 = 0 THEN q ELSE q + 1

\* system.py:34   `start_time and end_time`: None is false.
Truthy(s) == s # NoString

\* system.py:37-38   datetime.fromisoformat(s.replace('Z', '+00:00')) raises
\* ValueError unless s is an ISO 8601 text.
Parses(s) == s[1] = "iso"

FromIsoFormat(s) == s[2]

\* tasks.py:21-28: the row the sampler builds from a reading.
NewRecord(reading) ==
    [ timestamp       |-> now,
      cpu_percent     |-> reading.cpu_percent,
      memory_used_mb  |-> reading.memory_used_mb,
      memory_total_mb |-> reading.memory_total_mb,
      net_bytes_sent  |-> reading.bytes_sent,
      net_bytes_recv  |-> reading.bytes_recv ]

\* system.py:49   order_by(timestamp.asc()): rows of equal timestamp stay in
\* insertion order.
RECURSIVE OrderByTimestamp(_)
OrderByTimestamp(rows) ==
    IF rows = <<>>
      THEN <<>>
      ELSE LET r == Head(rows)
               rest == OrderByTimestamp(Tail(rows))
               k == Cardinality({ i \in 1..Len(rest) :
                                    rest[i].timestamp < r.timestamp })
           IN SubSeq(rest, 1, k) \o <<r>> \o SubSeq(rest, k + 1, Len(rest))

InWindowOfSameLength(r, start_dt, end_dt) ==
    r.timestamp >= now - (end_dt - start_dt)

\* system.py:39-42.
InExplicitWindow(r, start_dt, end_dt) ==
    /\ r.timestamp >= start_dt
    /\ r.timestamp <= end_dt

\* system.py:46   timedelta(minutes=minutes), in ticks.
Minutes(minutes) == minutes * 60 * TicksPerSecond

InTrailingWindow(r, minutes) ==
    r.timestamp >= now - Minutes(minutes)

FilterIgnoringWindow(rows, args) ==
    SelectSeq(rows, LAMBDA r : InTrailingWindow(r, args.minutes))

\* system.py:32-47: the filter the query gets.  A window that does not
\* parse raises ValueError before query.filter is reached, and the except
\* clause passes: the query keeps no filter at all.
Filter(rows, args) ==
    IF Truthy(args.start_time) /\ Truthy(args.end_time)
      THEN IF Parses(args.start_time) /\ Parses(args.end_time)
             THEN SelectSeq(rows, LAMBDA r :
                    InExplicitWindow(r, FromIsoFormat(args.start_time),
                                        FromIsoFormat(args.end_time)))
             ELSE rows
      ELSE SelectSeq(rows, LAMBDA r : InTrailingWindow(r, args.minutes))

SpeedUnclamped(prev_counter, counter, time_diff) ==
    Round2((counter - prev_counter) * TicksPerSecond, time_diff)

SpeedPerInterval(prev_counter, counter, time_diff) ==
    Round2(Max0(counter - prev_counter) * 100, 100)

\* system.py:78-81   round(max(0, r.c - prev_r.c) / time_diff, 2), with
\* time_diff > 0 in ticks.
Speed(prev_counter, counter, time_diff) ==
    Round2(Max0(counter - prev_counter) * TicksPerSecond, time_diff)

NetSpeedFromZero(records, i, prev_counter, counter) ==
    IF i = 1
      THEN Speed(0, counter, TicksPerSecond)
      ELSE LET time_diff == records[i].timestamp - records[i - 1].timestamp
           IN IF time_diff > 0
                THEN Speed(prev_counter, counter, time_diff)
                ELSE 0

NetSpeedMinimalDt(records, i, prev_counter, counter) ==
    IF i = 1
      THEN 0
      ELSE LET time_diff == records[i].timestamp - records[i - 1].timestamp
           IN IF time_diff > 0
                THEN Speed(prev_counter, counter, time_diff)
                ELSE Speed(prev_counter, counter, 1)

\* system.py:70-84: the rate at index i of the selected rows.
NetSpeed(records, i, prev_counter, counter) ==
    IF i = 1
      THEN 0
      ELSE LET time_diff == records[i].timestamp - records[i - 1].timestamp
           IN IF time_diff > 0
                THEN Speed(prev_counter, counter, time_diff)
                ELSE 0

\* system.py:92   records[0].memory_total_mb if records else 0
MemoryTotal(records) ==
    IF records # <<>> THEN records[1].memory_total_mb ELSE 0

\* system.py:49-93: the response built from the selected rows.  `records`
\* is not part of the response: it keeps the rows it was derived from.
HistoryResponse(args) ==
    LET records == OrderByTimestamp(Filter(store, args))
        n == Len(records)
    IN [ op        |-> "query",
         args      |-> args,
         records   |-> records,
         after_clear |-> cleared_last,
         repeats   |-> IF previous.op = "query" /\ previous.args = args
                         THEN previous
                         ELSE NoResponse,
         timestamps |-> [i \in 1..n |-> IsoFormat(records[i].timestamp)],
         cpu       |-> [i \in 1..n |-> records[i].cpu_percent],
         memory_used_mb |->
             [i \in 1..n |-> Round2(records[i].memory_used_mb, 1000)],
         net_sent_speed_bps |->
             [i \in 1..n |->
                NetSpeed(records, i,
                         IF i = 1 THEN 0 ELSE records[i - 1].net_bytes_sent,
                         records[i].net_bytes_sent)],
         net_recv_speed_bps |->
             [i \in 1..n |->
                NetSpeed(records, i,
                         IF i = 1 THEN 0 ELSE records[i - 1].net_bytes_recv,
                         records[i].net_bytes_recv)],
         memory_total_mb |-> MemoryTotal(records) ]

\* system.py:86-93: the dictionary the caller receives.
Results(r) ==
    [ timestamps         |-> r.timestamps,
      cpu                |-> r.cpu,
      memory_used_mb     |-> r.memory_used_mb,
      net_sent_speed_bps |-> r.net_sent_speed_bps,
      net_recv_speed_bps |-> r.net_recv_speed_bps,
      memory_total_mb    |-> r.memory_total_mb ]

DeleteNothing(rows) == rows

\* system.py:98   db.query(SystemMetricsHistory).delete(): the table after it.
DeleteAll(rows) == <<>>

\* ---------------------------------------------------------- history: steps

\* Time passes; the last response has reached its caller.
ElapseHistory ==
    /\ \E d \in HistoryGaps : Elapse(d, HistoryTimes)
    /\ response' = NoResponse
    /\ UNCHANGED <<store, next_run_time, previous, cleared_last, since_clear, restarts, churnVars>>

\* Time passes, one sampling interval at a time.
ElapseInterval ==
    /\ Elapse(SampleIntervalSeconds * TicksPerSecond, HistoryTimes)
    /\ response' = NoResponse
    /\ UNCHANGED <<store, next_run_time, previous, cleared_last, since_clear, restarts, churnVars>>

JobEndsOnFailure(outcome) ==
    /\ now >= next_run_time
    /\ next_run_time' =
          IF outcome = "committed"
            THEN now + SampleIntervalSeconds * TicksPerSecond
            ELSE Epoch0 + 2 * DefaultMinutes * 60 * TicksPerSecond
    /\ response' = [op |-> "tick", outcome |-> outcome]
    /\ previous' = NoResponse
    /\ UNCHANGED <<now, cleared_last, restarts, churnVars>>

\* main.py:24: the scheduler runs the job when its run time has come, and
\* sets the next run one interval ahead, however the run ends.
JobRuns(outcome) ==
    /\ now >= next_run_time
    /\ next_run_time' = now + SampleIntervalSeconds * TicksPerSecond
    /\ response' = [op |-> "tick", outcome |-> outcome]
    /\ previous' = NoResponse
    /\ UNCHANGED <<now, cleared_last, restarts, churnVars>>

\* tasks.py:8-34: a tick that reads the metrics and commits its row.
CollectCommitted ==
    /\ JobRuns("committed")
    /\ Len(store) < MaxSamples
    /\ \E reading \in Readings : store' = Append(store, NewRecord(reading))
    /\ since_clear' = since_clear + 1

\* tasks.py:10-18, 35-37: psutil raises; the except clause prints and rolls
\* back, nothing is stored.
CollectSourceError ==
    /\ JobRuns("source_error")
    /\ UNCHANGED <<store, since_clear>>

CollectStoreErrorKeepsRow ==
    /\ JobRuns("store_error")
    /\ Len(store) < MaxSamples
    /\ \E reading \in Readings : store' = Append(store, NewRecord(reading))
    /\ UNCHANGED since_clear

\* tasks.py:30-37: db.add or db.commit raises; the except clause prints and
\* rolls back, nothing is stored.
CollectStoreError ==
    /\ JobRuns("store_error")
    /\ UNCHANGED <<store, since_clear>>

collect_system_metrics ==
    \/ CollectCommitted
    \/ CollectSourceError
    \/ CollectStoreError

\* The client sends its requests one after the other: the last response
\* has reached it.
Requested == response = NoResponse

\* The response reaches the client; the outcome of a run of the job is
\* printed or dropped.
Delivered ==
    /\ response # NoResponse
    /\ response' = NoResponse
    /\ UNCHANGED <<now, store, next_run_time, previous, cleared_last, since_clear, restarts, churnVars>>

\* system.py:24-93: the rows are read and the response is returned.
QueryAnswered ==
    /\ Requested
    /\ \E args \in QueryArgs : response' = HistoryResponse(args)
    /\ previous' = [op |-> "query", args |-> response'.args, at |-> now,
                    result |-> Results(response')]
    /\ cleared_last' = FALSE
    /\ UNCHANGED <<now, store, next_run_time, since_clear, restarts, churnVars>>

\* system.py:49: query.all() raises (the database is locked, the disk
\* fails).  No try statement encloses it: the exception leaves the handler.
QueryStorageError ==
    /\ Requested
    /\ response' = [op |-> "raise", handler |-> "get_metrics_history"]
    /\ cleared_last' = FALSE
    /\ UNCHANGED <<now, store, next_run_time, previous, since_clear, restarts, churnVars>>

get_metrics_history ==
    \/ QueryAnswered
    \/ QueryStorageError

\* system.py:97-101: the delete is committed.
ClearCommitted ==
    /\ Requested
    /\ store' = DeleteAll(store)
    /\ response' = [op |-> "clear", status |-> "success", message |-> "cleared"]
    /\ previous' = NoResponse
    /\ cleared_last' = TRUE
    /\ since_clear' = 0
    /\ UNCHANGED <<now, next_run_time, restarts, churnVars>>

\* system.py:102-104: the delete or the commit raises; rolled back.
ClearFailed ==
    /\ Requested
    /\ response' = [op |-> "clear", status |-> "error", message |-> "str(e)"]
    /\ previous' = NoResponse
    /\ cleared_last' = FALSE
    /\ UNCHANGED <<now, store, next_run_time, since_clear, restarts, churnVars>>

clear_metrics_history ==
    \/ ClearCommitted
    \/ ClearFailed

\* main.py:18-28, database.py:6: the process ends and is started again.
\* monitor.db is a file and keeps its rows; the module globals are set
\* anew and the job is added again, its first run one interval after the
\* start.  The wall clock is not the process's: at the start it reads what
\* it read before, or what it read at the first start (a machine without a
\* battery-backed clock boots with the same date every time).
Restart ==
    /\ restarts < MaxRestarts
    /\ restarts' = restarts + 1
    /\ \E t \in {now, Epoch0} : now' = t
    /\ next_run_time' = now' + SampleIntervalSeconds * TicksPerSecond
    /\ response' = NoResponse
    /\ previous' = NoResponse
    /\ last_connections_snapshot' = {}
    /\ last_snapshot_time' = 0
    /\ UNCHANGED <<store, cleared_last, since_clear, writers, pc, frame, calls>>

NextHistory ==
    \/ ElapseHistory
    \/ Delivered
    \/ collect_system_metrics
    \/ get_metrics_history
    \/ clear_metrics_history

\* ------------------------------------------------------- specifications

\* The state once main.py's lifespan has started the scheduler: the module
\* globals of network.py:14-15, an empty table, the first run of the job
\* one interval ahead.
Init ==
    /\ now = Epoch0
    /\ last_connections_snapshot = {}
    /\ last_snapshot_time = 0
    /\ writers = [snapshot |-> 0, time |-> 0]
    /\ pc = [c \in Threads |-> "idle"]
    /\ frame = [c \in Threads |-> IdleFrame]
    /\ calls = 0
    /\ store = <<>>
    /\ next_run_time = Epoch0 + SampleIntervalSeconds * TicksPerSecond
    /\ response = NoResponse
    /\ previous = NoResponse
    /\ cleared_last = FALSE
    /\ since_clear = 0
    /\ restarts = 0

\* The connection-churn tracker under concurrent requests.
SpecChurn == Init /\ [][NextChurn]_vars

\* The sampler, the store and the history handlers.
SpecHistory == Init /\ [][NextHistory]_vars

\* The sampler and the store across restarts of the process, over the
\* first MaxSamples sampling intervals.
NextRestart ==
    \/ ElapseInterval
    \/ collect_system_metrics
    \/ Restart

SpecRestart == Init /\ [][NextRestart]_vars

\* The rows of monitor.db at a start of the process: what earlier runs
\* left, whose clocks read the same dates (see Restart), in any order.
SeriesTimes ==
    { Epoch0 + k * SampleIntervalSeconds * TicksPerSecond : k \in 1..2 }

Series ==
    UNION { [1..n -> { [NewRecord(reading) EXCEPT !.timestamp = t] :
                         reading \in Readings, t \in SeriesTimes }] :
            n \in 0..MaxSamples }

InitSeries ==
    /\ now = Epoch0 + 2 * SampleIntervalSeconds * TicksPerSecond
    /\ store \in Series
    /\ next_run_time = now + SampleIntervalSeconds * TicksPerSecond
    /\ response = NoResponse
    /\ previous = NoResponse
    /\ cleared_last = FALSE
    /\ since_clear = 0
    /\ restarts = 0
    /\ last_connections_snapshot = {}
    /\ last_snapshot_time = 0
    /\ writers = [snapshot |-> 0, time |-> 0]
    /\ pc = [c \in Threads |-> "idle"]
    /\ frame = [c \in Threads |-> IdleFrame]
    /\ calls = 0

\* The query over every stored series.
NextSeries ==
    \/ get_metrics_history
    \/ Delivered

SpecSeries == InitSeries /\ [][NextSeries]_vars

\* The sampler of one run of the process: time passes, and the scheduler
\* runs the job when it is due.
NextSampler ==
    \/ ElapseInterval
    \/ collect_system_metrics

FairSampler ==
    /\ Init
    /\ [][NextSampler]_vars
    /\ WF_vars(ElapseInterval)
    /\ WF_vars(collect_system_metrics)

\* ---------------------------------------------------------- churn: claims

\* A call that reached its return statement.
Returning(c) == pc[c] = "l102"

\* A call between its read of the stored baseline and its last write of it.
InReadModifyWrite(c) == pc[c] \in {"l90", "l91", "l92", "l99", "l100"}

\* C1: concurrent calls of get_network_connections are serialized: the
\* read of the baseline, the diff and the replacement of the baseline by one
\* call never interleave with those steps of another call.
C1_Serialized ==
    \A c, d \in Threads :
        c # d => ~(InReadModifyWrite(c) /\ InReadModifyWrite(d))

\* C2: a call that is not the first ever and whose elapsed time is strictly
\* between 1 s and 10 s returns new_per_3s = trunc(|current - last| * 3 /
\* elapsed) and closed_per_3s = trunc(|last - current| * 3 / elapsed),
\* whatever the two sets are.
C2_RateFormula ==
    \A c \in Threads :
        LET f == frame[c]
            scaled(n) == (n * 3 * TicksPerSecond) \div f.time_diff
        IN (/\ Returning(c)
            /\ ~f.first
            /\ 1 * TicksPerSecond < f.time_diff
            /\ f.time_diff < 10 * TicksPerSecond)
           => /\ Response(c).new_per_3s =
                    scaled(Cardinality(f.current_snapshot \ f.base))
              /\ Response(c).closed_per_3s =
                    scaled(Cardinality(f.base \ f.current_snapshot))

\* C3: a call that is the first ever, or whose elapsed time is at most 1 s
\* or at least 10 s, returns new_per_3s = 0 and closed_per_3s = 0 whatever
\* the difference between the stored and the current set.
C3_ZeroOutsideBand ==
    \A c \in Threads :
        (/\ Returning(c)
         /\ \/ frame[c].first
            \/ frame[c].time_diff <= 1 * TicksPerSecond
            \/ frame[c].time_diff >= 10 * TicksPerSecond)
        => /\ Response(c).new_per_3s = 0
           /\ Response(c).closed_per_3s = 0

\* A second or later call returns exactly 1 s after the stored time, with a
\* current set that differs from the stored one.
C3_Witness ==
    \E c \in Threads :
        /\ Returning(c)
        /\ ~frame[c].first
        /\ frame[c].time_diff = 1 * TicksPerSecond
        /\ frame[c].current_snapshot \ frame[c].base # {}
        /\ frame[c].base \ frame[c].current_snapshot # {}

\* C4: every call, also one that reported zero churn, replaces the stored
\* baseline by its own observation: when it returns, the stored set is its
\* filtered current set and the stored time is its time.
C4_BaselineReplaced ==
    [][\A c \in Threads :
         (pc[c] = "l100" /\ pc'[c] = "l102") =>
             /\ last_connections_snapshot' = frame[c].current_snapshot
             /\ last_snapshot_time' = frame[c].current_time]_vars

\* The call of thread c got psutil.AccessDenied from net_connections.
Denied(c) == frame[c].denied

\* C15: a call whose enumeration of the connections is denied treats the
\* list as empty: it returns total_connections = 0, no status count and
\* new_per_3s = 0; when its elapsed time is in the band, closed_per_3s is
\* the rate of the whole stored set (0 when that set is empty); and the set
\* it stores is the empty set.
C15_DeniedIsEmpty ==
    /\ [](\A c \in Threads :
            (Returning(c) /\ Denied(c)) =>
                /\ Response(c).total_connections = 0
                /\ DOMAIN Response(c).status_counts = {}
                /\ Response(c).new_per_3s = 0)
    /\ [][\A c \in Threads :
            Denied(c) =>
                /\ (/\ pc[c] = "l90" /\ pc'[c] = "l99"
                    /\ 1 * TicksPerSecond < frame[c].time_diff
                    /\ frame[c].time_diff < 10 * TicksPerSecond)
                   => last_connections_snapshot = {}
                /\ (pc[c] = "l92" /\ pc'[c] = "l99")
                   => frame'[c].closed_conns =
                        (Cardinality(last_connections_snapshot) * 3 * TicksPerSecond)
                            \div frame[c].time_diff
                /\ (pc[c] = "l99" /\ pc'[c] = "l100")
                   => last_connections_snapshot' = {}]_vars

\* A denied call returns, in the band, with the two stored connections
\* counted as closed, and has stored the empty set.
C15_Witness ==
    \E c \in Threads :
        /\ Returning(c)
        /\ Denied(c)
        /\ frame[c].base = {"A", "B"}
        /\ Response(c).closed_per_3s > 0
        /\ last_connections_snapshot = {}

\* C17: the stored set and the stored time are replaced together: outside
\* the two writes of a call, both were written by the same call, under any
\* interleaving; and the stored time never moves backwards.
C17_ReplacedAtomically ==
    /\ []((\A c \in Threads : pc[c] # "l100") => writers.snapshot = writers.time)
    /\ [][last_snapshot_time' >= last_snapshot_time]_vars

\* -------------------------------------------------------- history: claims

\* get_metrics_history has just returned.
Queried == response.op = "query"

\* The time between returned sample i and the one before it, in ticks.
Dt(i) == response.records[i].timestamp - response.records[i - 1].timestamp

\* C5: at every index i >= 1 at which a cumulative counter decreased, the
\* derived rate of that direction is exactly 0, and no derived rate is
\* ever negative.
C5_ResetGivesZero ==
    Queried =>
        LET rec == response.records
            n == Len(rec)
        IN /\ \A i \in 2..n :
                /\ rec[i].net_bytes_sent < rec[i - 1].net_bytes_sent
                     => response.net_sent_speed_bps[i] = 0
                /\ rec[i].net_bytes_recv < rec[i - 1].net_bytes_recv
                     => response.net_recv_speed_bps[i] = 0
           /\ \A i \in 1..n :
                /\ response.net_sent_speed_bps[i] >= 0
                /\ response.net_recv_speed_bps[i] >= 0

\* A response in which both counters fell between two samples taken at
\* different times.
C5_Witness ==
    /\ Queried
    /\ \E i \in 2..Len(response.records) :
         /\ Dt(i) > 0
         /\ response.records[i].net_bytes_sent < response.records[i - 1].net_bytes_sent
         /\ response.records[i].net_bytes_recv < response.records[i - 1].net_bytes_recv

\* rate (hundredths of a byte per second) is diff / dt rounded to two
\* decimals: it lies within half a hundredth of the quotient.
IsRounded(rate, diff, dt) ==
    LET err == rate * dt - 100 * diff * TicksPerSecond
    IN /\ 2 * err <= dt
       /\ 2 * err >= 0 - dt

\* C6: at every index i >= 1 with t[i] > t[i-1] and a counter that did not
\* decrease, the derived rate is (counter[i] - counter[i-1]) / (t[i] -
\* t[i-1]) bytes per second rounded to 2 decimals, taken from the returned
\* sample just before it.
C6_RateIsDiffOverDt ==
    Queried =>
        LET rec == response.records
        IN \A i \in 2..Len(rec) :
             Dt(i) > 0 =>
               /\ rec[i].net_bytes_sent >= rec[i - 1].net_bytes_sent
                    => IsRounded(response.net_sent_speed_bps[i],
                                 rec[i].net_bytes_sent - rec[i - 1].net_bytes_sent,
                                 Dt(i))
               /\ rec[i].net_bytes_recv >= rec[i - 1].net_bytes_recv
                    => IsRounded(response.net_recv_speed_bps[i],
                                 rec[i].net_bytes_recv - rec[i - 1].net_bytes_recv,
                                 Dt(i))

\* A response with 200 bytes sent in the 3 s between two samples: 66.67.
C6_Witness ==
    /\ Queried
    /\ \E i \in 2..Len(response.records) :
         /\ Dt(i) = SampleIntervalSeconds * TicksPerSecond
         /\ response.records[i].net_bytes_sent
              = response.records[i - 1].net_bytes_sent + 200
         /\ response.net_sent_speed_bps[i] = 6667

\* Both bounds of an explicit window were given.
WindowGiven == Truthy(response.args.start_time) /\ Truthy(response.args.end_time)

WindowParses == Parses(response.args.start_time) /\ Parses(response.args.end_time)

\* The instants of the returned timestamps.
ReturnedInstant(i) == FromIsoFormat(response.timestamps[i])

\* C7: given both start_time and end_time, of which one does not parse,
\* the query falls back to the trailing window of the default 60 minutes:
\* every returned sample has timestamp >= now - 60 minutes.
C7_FallbackToDefault ==
    (Queried /\ WindowGiven /\ ~WindowParses) =>
        \A i \in 1..Len(response.timestamps) :
            ReturnedInstant(i) >= now - 60 * 60 * TicksPerSecond

\* C8: memory_total_mb is the total memory of the latest-timestamp sample
\* of the queried window, and 0 when the window holds no sample.
C8_MemoryTotalOfLatest ==
    Queried =>
        LET rec == response.records
        IN IF rec = <<>>
             THEN response.memory_total_mb = 0
             ELSE \E i \in 1..Len(rec) :
                    /\ \A j \in 1..Len(rec) : rec[j].timestamp <= rec[i].timestamp
                    /\ response.memory_total_mb = rec[i].memory_total_mb

\* The returned timestamps are, in ascending order, those of the stored
\* samples that satisfy InWindow, each once.
ReturnsExactly(InWindow(_)) ==
    LET n == Len(response.timestamps)
    IN /\ n = Cardinality({ j \in 1..Len(store) : InWindow(store[j].timestamp) })
       /\ \A i \in 1..n :
            /\ InWindow(ReturnedInstant(i))
            /\ \E j \in 1..Len(store) : store[j].timestamp = ReturnedInstant(i)
       /\ \A i \in 2..n : ReturnedInstant(i - 1) <= ReturnedInstant(i)

\* C9: the query returns exactly the stored samples of the requested
\* window in ascending timestamp order: start <= timestamp <= end for an
\* explicit window that parses, whatever minutes is; timestamp >= now -
\* minutes when only minutes is given.
C9_ExactlyTheWindow ==
    Queried =>
        LET a == response.args
        IN /\ (WindowGiven /\ WindowParses) =>
                ReturnsExactly(LAMBDA t :
                    /\ FromIsoFormat(a.start_time) <= t
                    /\ t <= FromIsoFormat(a.end_time))
           /\ ~WindowGiven =>
                ReturnsExactly(LAMBDA t : t >= now - a.minutes * 60 * TicksPerSecond)

\* An explicit window given together with minutes = 1 returns a sample
\* older than one minute, and leaves out a stored sample outside it.
C9_Witness ==
    /\ Queried
    /\ WindowGiven
    /\ WindowParses
    /\ response.args.minutes = 1
    /\ \E i \in 1..Len(response.timestamps) :
         ReturnedInstant(i) < now - 60 * TicksPerSecond
    /\ Len(response.timestamps) < Len(store)

\* The query repeats the one before it: the same arguments, and no run of
\* the job and no clear between the two.
Repeated == Queried /\ response.repeats.op = "query"

\* C11 as stated: two calls of get_metrics_history with identical
\* arguments, with no record_sample and no clear_history between them,
\* return identical results, in every argument form.
C11_SameResultTwice ==
    Repeated => Results(response) = response.repeats.result

\* Every stored sample is on the same side of now - minutes at both calls.
SameTrailingWindow ==
    LET m == response.args.minutes * 60 * TicksPerSecond
    IN \A j \in 1..Len(store) :
         (store[j].timestamp >= response.repeats.at - m)
            <=> (store[j].timestamp >= now - m)

\* C11 as amended: the two calls return identical results when both bounds
\* of an explicit window are given, and in the trailing form when the
\* trailing window holds the same stored samples at both calls.
C11_SameResultSameWindow ==
    (Repeated /\ (WindowGiven \/ SameTrailingWindow))
        => Results(response) = response.repeats.result

\* A trailing-form query repeated one sampling interval later, that
\* returns a sample.
C11_Witness ==
    /\ Repeated
    /\ ~WindowGiven
    /\ response.repeats.at < now
    /\ response.timestamps # <<>>
    /\ Results(response) = response.repeats.result

\* The handler met a storage failure.
StorageFailed ==
    \/ response.op = "raise"
    \/ response.op = "clear" /\ response.status = "error"

\* C14: a storage failure in get_metrics_history or clear_metrics_history
\* reaches the caller as a result with status "error" and a message, never
\* as an exception.
C14_FailureIsAResult ==
    StorageFailed =>
        /\ response.op # "raise"
        /\ response.status = "error"
        /\ "message" \in DOMAIN response

\* C16: for every stored series, the five arrays of the response are as
\* long as the number of samples of the window, and both rates at the
\* first index are 0; a window of one sample gives rates [0] and [0].
C16_LengthsAndFirstRate ==
    Queried =>
        LET n == Len(response.records)
        IN /\ Len(response.timestamps) = n
           /\ Len(response.cpu) = n
           /\ Len(response.memory_used_mb) = n
           /\ Len(response.net_sent_speed_bps) = n
           /\ Len(response.net_recv_speed_bps) = n
           /\ n >= 1 => /\ response.net_sent_speed_bps[1] = 0
                        /\ response.net_recv_speed_bps[1] = 0
           /\ n = 1 => /\ response.net_sent_speed_bps = <<0>>
                       /\ response.net_recv_speed_bps = <<0>>

\* A window of one sample whose counters are not 0.
C16_Witness ==
    /\ Queried
    /\ Len(response.records) = 1
    /\ Len(store) > 1
    /\ response.records[1].net_bytes_sent > 0
    /\ response.records[1].net_bytes_recv > 0
    /\ response.net_sent_speed_bps = <<0>>
    /\ response.net_recv_speed_bps = <<0>>

\* C20: at every index i >= 1 whose time to the returned sample before it
\* is 0 or less, both rates are 0, whatever the counters are.
C20_ZeroWithoutTimeDifference ==
    Queried =>
        \A i \in 2..Len(response.records) :
            Dt(i) <= 0 =>
                /\ response.net_sent_speed_bps[i] = 0
                /\ response.net_recv_speed_bps[i] = 0

\* Two returned samples of the same timestamp, both counters of the
\* second above those of the first.
C20_Witness ==
    /\ Queried
    /\ \E i \in 2..Len(response.records) :
         /\ Dt(i) = 0
         /\ response.records[i].net_bytes_sent > response.records[i - 1].net_bytes_sent
         /\ response.records[i].net_bytes_recv > response.records[i - 1].net_bytes_recv
         /\ response.net_sent_speed_bps[i] = 0
         /\ response.net_recv_speed_bps[i] = 0

\* The five arrays of the response are empty and memory_total_mb is 0.
EmptyResponse ==
    /\ response.timestamps = <<>>
    /\ response.cpu = <<>>
    /\ response.memory_used_mb = <<>>
    /\ response.net_sent_speed_bps = <<>>
    /\ response.net_recv_speed_bps = <<>>
    /\ response.memory_total_mb = 0

\* C10 as stated: a successful clear followed immediately by a query
\* returns empty arrays and memory_total_mb = 0, also while the sampler
\* keeps running.
C10_EmptyAfterClear ==
    (Queried /\ response.after_clear) => EmptyResponse

\* C10 as amended: a successful clear followed by a query, with no other
\* request between them, returns only samples the sampler stored after the
\* clear; it returns empty arrays and memory_total_mb = 0 when no tick
\* stored a sample between the two.
C10_OnlySamplesSinceClear ==
    (Queried /\ response.after_clear) =>
        /\ Len(response.timestamps) <= since_clear
        /\ Len(response.cpu) <= since_clear
        /\ Len(response.memory_used_mb) <= since_clear
        /\ Len(response.net_sent_speed_bps) <= since_clear
        /\ Len(response.net_recv_speed_bps) <= since_clear
        /\ since_clear = 0 => EmptyResponse

\* A query that follows a successful clear and finds nothing, the sampler
\* having run before the clear.
C10_Witness ==
    /\ Queried
    /\ response.after_clear
    /\ since_clear = 0
    /\ EmptyResponse
    /\ next_run_time > Epoch0 + SampleIntervalSeconds * TicksPerSecond

\* ------------------------------------------------------- sampler: claims

\* The job has just run and ended with the given outcome.
TickEnded(outcome) == response.op = "tick" /\ response.outcome = outcome

TickFailed == TickEnded("source_error") \/ TickEnded("store_error")

\* The clock has not reached the last reading the model follows.
BeforeHorizon == now < Epoch0 + MaxSamples * SampleIntervalSeconds * TicksPerSecond

\* C12: a tick that fails, in the read of the metrics or in the append,
\* does not end the schedule: the job runs again later, and a run whose
\* source and store work appends its sample.
C12_ScheduleSurvives ==
    /\ []((TickFailed /\ BeforeHorizon)
            => <>(response.op # "tick" /\ <>(response.op = "tick")))
    /\ [][(response'.op = "tick" /\ response'.outcome = "committed")
            => /\ Len(store') = Len(store) + 1
               /\ store'[Len(store')].timestamp = now]_vars

\* A tick has just failed, with a sample of an earlier tick in the store
\* and time left for later ticks.
C12_Witness ==
    /\ TickFailed
    /\ store # <<>>
    /\ BeforeHorizon

\* C13: a tick whose read of the metrics fails in part is not aborted: it
\* appends exactly one sample, with zero in a field.
C13_ZeroSubstituted ==
    [][(response'.op = "tick" /\ response'.outcome = "source_error")
        => /\ Len(store') = Len(store) + 1
           /\ SubSeq(store', 1, Len(store)) = store
           /\ LET r == store'[Len(store')]
              IN \/ r.cpu_percent = 0
                 \/ r.memory_used_mb = 0
                 \/ r.memory_total_mb = 0
                 \/ r.net_bytes_sent = 0
                 \/ r.net_bytes_recv = 0]_vars

\* C18: the timestamps of the stored samples never decrease in insertion
\* order.
C18_TimestampsNonDecreasing ==
    \A i \in 2..Len(store) : store[i - 1].timestamp <= store[i].timestamp

\* C19: a tick whose append to the store fails is skipped as a whole: the
\* store is what it was before the tick, and the job ends as a run of the
\* job does, with nothing raised.
C19_FailedAppendSkipped ==
    [][(response'.op = "tick" /\ response'.outcome = "store_error")
        => store' = store]_vars

\* The append of a tick has just failed, with samples of earlier ticks in
\* the store.
C19_Witness ==
    /\ TickEnded("store_error")
    /\ Len(store) >= 2

====
